---- MODULE Spec2Model ----
(***************************************************************************)
(* Model of nbt_reader/src/java_read.rs: the JavaRead extension trait for  *)
(* std::io::Read.  The byte source is an in-memory cursor (as in the       *)
(* tests): a byte sequence `data` and a read position `pos`.  Each trait   *)
(* method is one action; its outcome is recorded in `res`.                 *)
(*                                                                         *)
(* TLC evaluates integers in 32 bits, so a 64-bit value (i64, and the bit  *)
(* patterns of f32/f64) is kept as big-endian 16-bit limbs: an i64 v is    *)
(* <<d3, d2, d1, d0>> with v = d3*2^48 + d2*2^32 + d1*2^16 + d0, d3 signed. *)
(***************************************************************************)
EXTENDS Integers, Sequences, FiniteSets, TLC

VARIABLES
    data,   \* the bytes of the underlying source
    pos,    \* the source's read position (bytes consumed so far)
    prev,   \* the position at which the last call started
    res,    \* the outcome of the last call
    owed,   \* sum of the mandated byte counts of the calls so far, while
            \* all of them have succeeded (0 once one has failed)
    clean   \* TRUE while no call has failed

vars == <<data, pos, prev, res, owed, clean>>

(***************************************************************************)
(* Bounds of the explored inputs.                                          *)
(***************************************************************************)
MaxLen == 4      \* longest source made of arbitrary RawBytes
MaxUnits == 2    \* most encoded sequences (fragments) in a generated payload

(***************************************************************************)
(* Bit operations on unsigned bytes / 16-bit units.                        *)
(***************************************************************************)
\* b >> k
Shr(b, k) == b \div (2 ^ k)

\* (b as u16) << k, truncated to 16 bits
Shl16(b, k) == (b * (2 ^ k)) % 65536

\* a | b for operands with no common set bit (the only use in the source)
Or16(a, b) == a + b

\* io::ErrorKind values used by the source
UnexpectedEof == "UnexpectedEof"
InvalidData == "InvalidData"
NoError == "None"

(***************************************************************************)
(* <$type>::from_be_bytes                                                  *)
(***************************************************************************)
RECURSIVE UnsignedBe(_)
\* big-endian bytes as an unsigned number (at most 3 bytes are passed)
UnsignedBe(bs) ==
    IF bs = <<>> THEN 0
    ELSE bs[1] * (256 ^ (Len(bs) - 1)) + UnsignedBe(Tail(bs))

\* the most significant byte with its two's-complement weight
SignedTop(b) == IF b >= 128 THEN b - 256 ELSE b

\* iN::from_be_bytes for N <= 32 / uN::from_be_bytes for N <= 16
FromBeBytes_LittleEndian(bs, signed) ==
    LET n == Len(bs)
        rv == [i \in 1..n |-> bs[n + 1 - i]]
    IN  (IF signed THEN SignedTop(rv[1]) ELSE rv[1]) * (256 ^ (n - 1))
            + UnsignedBe(Tail(rv))
FromBeBytes(bs, signed) ==
    (IF signed THEN SignedTop(bs[1]) ELSE bs[1]) * (256 ^ (Len(bs) - 1))
        + UnsignedBe(Tail(bs))

\* a 4- or 8-byte pattern as 16-bit limbs, most significant first
Limbs(bs, signed) ==
    [k \in 1..(Len(bs) \div 2) |->
        FromBeBytes(SubSeq(bs, 2 * k - 1, 2 * k), signed /\ k = 1)]

(***************************************************************************)
(* The operations of the trait and their widths, size_of::<$type>().       *)
(***************************************************************************)
SizeOf(op) ==
    CASE op = "read_byte" -> 1
      [] op = "read_short" -> 2
      [] op = "read_unsigned_short" -> 2
      [] op = "read_int" -> 4
      [] op = "read_long" -> 8
      [] op = "read_float" -> 4
      [] op = "read_double" -> 8

\* <$type>::from_be_bytes(buf) per instantiation of read_primitive_fn!
Convert(op, buf) ==
    CASE op = "read_byte" -> <<FromBeBytes(buf, TRUE)>>
      [] op = "read_short" -> <<FromBeBytes(buf, TRUE)>>
      [] op = "read_unsigned_short" -> <<FromBeBytes(buf, FALSE)>>
      [] op = "read_int" -> <<FromBeBytes(buf, TRUE)>>
      [] op = "read_long" -> Limbs(buf, TRUE)
      [] op = "read_float" -> Limbs(buf, FALSE)
      [] op = "read_double" -> Limbs(buf, FALSE)

(***************************************************************************)
(* Read::read_exact on the source.                                         *)
(***************************************************************************)
Remaining(p) == Len(data) - p

\* the position after a successful read_exact of n bytes
Advance_OneTooMany(p, n) == IF p + n < Len(data) THEN p + n + 1 ELSE p + n
Advance(p, n) == p + n

\* read_exact fails iff fewer than n bytes remain
CanRead(p, n) == Remaining(p) >= n

\* the positions a failed read_exact may leave: the default implementation
\* drains the source, a cursor may leave its position where it was
FailPositions(p) == {p, Len(data)}

\* the n bytes read_exact copies into buf
Buf(p, n) == SubSeq(data, p + 1, p + n)

\* self.read_exact(&mut buf) for a zeroed buf of n bytes, called at position
\* p: whether it succeeds, the buffer, and the positions it may leave
ReadExact_ShortRead(p, n) ==
    LET m == IF Remaining(p) >= n THEN n ELSE Remaining(p) IN
    [ok |-> TRUE,
     buf |-> [i \in 1..n |-> IF i <= m THEN data[p + i] ELSE 0],
     next |-> {p + m}]
ReadExact_Drain(p, n) ==
    IF CanRead(p, n)
    THEN [ok |-> TRUE, buf |-> Buf(p, n), next |-> {Len(data)}]
    ELSE [ok |-> FALSE, buf |-> <<>>, next |-> FailPositions(p)]
ReadExact(p, n) ==
    IF CanRead(p, n)
    THEN [ok |-> TRUE, buf |-> Buf(p, n), next |-> {Advance(p, n)}]
    ELSE [ok |-> FALSE, buf |-> <<>>, next |-> FailPositions(p)]

(***************************************************************************)
(* read_utf: the scan of the payload into UTF-16 code units.               *)
(***************************************************************************)
\* next_cont_byte(&mut bytes_iter), the iterator standing before bytes[i]
NextContByte_EofAsInvalid(bytes, i) ==
    IF i > Len(bytes) THEN [err |-> InvalidData, val |-> 0]
    ELSE IF Shr(bytes[i], 6) = 2 THEN [err |-> NoError, val |-> bytes[i] % 64]
    ELSE [err |-> InvalidData, val |-> 0]
NextContByte(bytes, i) ==
    IF i > Len(bytes) THEN [err |-> UnexpectedEof, val |-> 0]
    ELSE IF Shr(bytes[i], 6) = 2 THEN [err |-> NoError, val |-> bytes[i] % 64]
    ELSE [err |-> InvalidData, val |-> 0]

\* the code unit pushed by each branch of the loop body
Unit1(b0) == b0 % 128
Unit2_NoShift(b0, b1) == Or16(b0 % 32, b1)
Unit2(b0, b1) == Or16(Shl16(b0 % 32, 6), b1)
Unit3(b0, b1, b2) == Or16(Or16(Shl16(b0 % 16, 12), Shl16(b1, 6)), b2)

\* the lead-byte tests of the loop body
IsLead1_RejectNul(b0) == Shr(b0, 7) = 0 /\ b0 # 0
IsLead1(b0) == Shr(b0, 7) = 0
IsLead2(b0) == Shr(b0, 5) = 6
IsLead3_AcceptF(b0) == Shr(b0, 5) = 7
IsLead3(b0) == Shr(b0, 4) = 14

RECURSIVE ScanFrom(_, _, _)
\* `while let Some(b0) = bytes_iter.next() { ... }`, the iterator standing
\* before bytes[i] and code_units holding `units`
ScanFrom(bytes, i, units) ==
    IF i > Len(bytes) THEN [err |-> NoError, units |-> units]
    ELSE LET b0 == bytes[i] IN
        IF IsLead1(b0) THEN ScanFrom(bytes, i + 1, Append(units, Unit1(b0)))
        ELSE IF IsLead2(b0) THEN
            LET c1 == NextContByte(bytes, i + 1) IN
            IF c1.err # NoError THEN [err |-> c1.err, units |-> units]
            ELSE ScanFrom(bytes, i + 2, Append(units, Unit2(b0, c1.val)))
        ELSE IF IsLead3(b0) THEN
            LET c1 == NextContByte(bytes, i + 1) IN
            IF c1.err # NoError THEN [err |-> c1.err, units |-> units]
            ELSE LET c2 == NextContByte(bytes, i + 2) IN
                IF c2.err # NoError THEN [err |-> c2.err, units |-> units]
                ELSE ScanFrom(bytes, i + 3,
                              Append(units, Unit3(b0, c1.val, c2.val)))
        ELSE [err |-> InvalidData, units |-> units]

\* the whole loop over the payload
Scan(bytes) == ScanFrom(bytes, 1, <<>>)

(***************************************************************************)
(* String::from_utf16(&code_units): char::decode_utf16, stopping at the    *)
(* first unit that is no scalar value and no half of a pair.               *)
(***************************************************************************)
IsSurrogate(u) == u \div 2048 = 27          \* u & 0xF800 == 0xD800

RECURSIVE DecodeUtf16(_, _, _)
DecodeUtf16(units, i, chars) ==
    IF i > Len(units) THEN [ok |-> TRUE, chars |-> chars]
    ELSE LET u == units[i] IN
        IF ~IsSurrogate(u) THEN DecodeUtf16(units, i + 1, Append(chars, u))
        ELSE IF u >= 56320 THEN [ok |-> FALSE, chars |-> <<>>]
        ELSE IF i + 1 > Len(units) THEN [ok |-> FALSE, chars |-> <<>>]
        ELSE LET u2 == units[i + 1] IN
            IF u2 < 56320 \/ u2 > 57343 THEN [ok |-> FALSE, chars |-> <<>>]
            ELSE DecodeUtf16(units, i + 2,
                     Append(chars, (u % 1024) * 1024 + (u2 % 1024) + 65536))

FromUtf16_Lossy(units) == [ok |-> TRUE, chars |-> units]
FromUtf16(units) == DecodeUtf16(units, 1, <<>>)

(***************************************************************************)
(* Outcomes.                                                               *)
(***************************************************************************)
\* Ok(value) of a fixed-width read
OkPrimitive(op, value) ==
    [op |-> op, ok |-> TRUE, err |-> NoError, value |-> value,
     len |-> -1, scanned |-> FALSE, units |-> <<>>]

\* Err(kind) of any call; len is utf_length when it was read, units the
\* code units when the scan got through the payload
Failed(op, kind, len, scanned, units) ==
    [op |-> op, ok |-> FALSE, err |-> kind, value |-> <<>>,
     len |-> len, scanned |-> scanned, units |-> units]

\* Ok(String) of read_utf, the string as its sequence of scalar values
OkUtf(len, units, chars) ==
    [op |-> "read_utf", ok |-> TRUE, err |-> NoError, value |-> chars,
     len |-> len, scanned |-> TRUE, units |-> units]

\* what read_utf returns once utf_length and the payload have been read
Decode_EagerSurrogates(len, payload) ==
    LET s == Scan(payload)
        t == FromUtf16(s.units)
    IN  IF ~t.ok THEN Failed("read_utf", InvalidData, len, FALSE, <<>>)
        ELSE IF s.err # NoError THEN Failed("read_utf", s.err, len, FALSE, <<>>)
        ELSE OkUtf(len, s.units, t.chars)
Decode(len, payload) ==
    LET s == Scan(payload) IN
    IF s.err # NoError THEN Failed("read_utf", s.err, len, FALSE, <<>>)
    ELSE LET t == FromUtf16(s.units) IN
        IF t.ok THEN OkUtf(len, s.units, t.chars)
        ELSE Failed("read_utf", InvalidData, len, TRUE, s.units)

(***************************************************************************)
(* Actions: one per trait method.                                          *)
(***************************************************************************)
\* the body generated by read_primitive_fn! { $name, $type }
ReadPrimitive(op) ==
    LET r == ReadExact(pos, SizeOf(op)) IN
    /\ prev' = pos
    /\ data' = data
    /\ pos' \in r.next
    /\ IF r.ok
       THEN /\ res' = OkPrimitive(op, Convert(op, r.buf))
            /\ owed' = IF clean THEN owed + SizeOf(op) ELSE 0
            /\ clean' = clean
       ELSE /\ res' = Failed(op, UnexpectedEof, -1, FALSE, <<>>)
            /\ owed' = 0
            /\ clean' = FALSE

ReadByte == ReadPrimitive("read_byte")
ReadShort == ReadPrimitive("read_short")
ReadUnsignedShort == ReadPrimitive("read_unsigned_short")
ReadInt == ReadPrimitive("read_int")
ReadLong == ReadPrimitive("read_long")
ReadFloat == ReadPrimitive("read_float")
ReadDouble == ReadPrimitive("read_double")

ReadUtf ==
    LET r1 == ReadExact(pos, 2) IN      \* self.read_unsigned_short()?
    /\ prev' = pos
    /\ data' = data
    /\ IF ~r1.ok
       THEN /\ pos' \in r1.next
            /\ res' = Failed("read_utf", UnexpectedEof, -1, FALSE, <<>>)
            /\ owed' = 0
            /\ clean' = FALSE
       ELSE LET utf_length == FromBeBytes(r1.buf, FALSE) IN
            \E p1 \in r1.next :
                LET r2 == ReadExact(p1, utf_length) IN  \* read_exact(&mut bytes)?
                /\ pos' \in r2.next
                /\ IF ~r2.ok
                   THEN /\ res' = Failed("read_utf", UnexpectedEof, utf_length,
                                         FALSE, <<>>)
                        /\ owed' = 0
                        /\ clean' = FALSE
                   ELSE LET r == Decode(utf_length, r2.buf) IN
                        /\ res' = r
                        /\ owed' = IF clean /\ r.ok
                                   THEN owed + 2 + utf_length ELSE 0
                        /\ clean' = (clean /\ r.ok)

(***************************************************************************)
(* Sources explored.                                                       *)
(***************************************************************************)
\* bytes of the arbitrary short sources: 0x00 0x01 0x41 0x80 0xC0
RawBytes == {0, 1, 65, 128, 192}

RawSources == UNION {[1..n -> RawBytes] : n \in 0..MaxLen}

\* the DATA arrays of the unit tests
TestSources ==
    { <<192>>,
      <<192, 0>>,
      <<127, 255>>,
      <<192, 0, 0, 0>>,
      <<192, 0, 0, 0, 0, 0, 0, 0>>,
      <<0, 8, 65, 206, 188, 192, 128, 225, 136, 159>> }

\* big-endian patterns of the boundary values of each width: a top byte
\* followed by one repeated byte (0x80 0x00.. is the minimum, 0x7F 0xFF..
\* the maximum, 0x00.. zero, 0xFF.. minus one)
EdgeBytes == {0, 127, 128, 255}

EdgeSources ==
    { [i \in 1..w |-> IF i = 1 THEN b0 ELSE b] :
        b0 \in EdgeBytes, b \in EdgeBytes, w \in {1, 2, 4, 8} }

\* pieces of modified-UTF-8 payloads: whole 1-, 2- and 3-byte sequences
\* (among them both encodings of U+0000 and the surrogate range with its
\* neighbours), leads cut short, a bare continuation byte and a 1111xxxx byte
Fragments ==
    { <<0>>,
      <<192, 128>>, <<206, 188>>,
      <<237, 159, 191>>,                \* U+D7FF
      <<237, 160, 128>>,                \* 0xD800, the first high surrogate
      <<237, 175, 191>>,                \* 0xDBFF, the last high surrogate
      <<237, 176, 128>>,                \* 0xDC00, the first low surrogate
      <<237, 191, 191>>,                \* 0xDFFF, the last low surrogate
      <<238, 128, 128>>,                \* U+E000
      <<206>>, <<225>>, <<225, 136>>,
      <<128>>, <<240>> }

RECURSIVE Bodies(_)
\* concatenations of at most n fragments
Bodies(n) ==
    IF n = 0 THEN {<<>>}
    ELSE Bodies(n - 1) \cup {b \o f : b \in Bodies(n - 1), f \in Fragments}

\* a length prefix followed by a body: a prefix up to two below the body's
\* length cuts the last sequence short and leaves its remaining bytes in the
\* source, one above it promises more payload than the source holds
UtfSources ==
    UNION { { <<0, l>> \o b :
                l \in (IF Len(b) > 2 THEN Len(b) - 2 ELSE 0)..(Len(b) + 1) } :
            b \in Bodies(MaxUnits) }

Sources == RawSources \cup TestSources \cup EdgeSources \cup UtfSources

Init ==
    /\ data \in Sources
    /\ pos = 0
    /\ prev = 0
    /\ res = Failed("none", NoError, -1, FALSE, <<>>)
    /\ owed = 0
    /\ clean = TRUE

Next ==
    \/ ReadByte
    \/ ReadShort
    \/ ReadUnsignedShort
    \/ ReadInt
    \/ ReadLong
    \/ ReadFloat
    \/ ReadDouble
    \/ ReadUtf

Spec == Init /\ [][Next]_vars

(***************************************************************************)
(* Vocabulary of the properties, stated on the bytes of the source rather  *)
(* than through the operators above.                                       *)
(***************************************************************************)
IntegerOps ==
    {"read_byte", "read_short", "read_unsigned_short", "read_int", "read_long"}
FixedOps == IntegerOps \cup {"read_float", "read_double"}

\* the byte count the format mandates for a fixed-width read
Mandated(op) ==
    CASE op = "read_byte" -> 1
      [] op \in {"read_short", "read_unsigned_short"} -> 2
      [] op \in {"read_int", "read_float"} -> 4
      [] op \in {"read_long", "read_double"} -> 8

\* bytes left in the source when the last call started
Left == Len(data) - prev

\* the n bytes of the source at which the last call started
Next_n(n) == [i \in 1..n |-> data[prev + i]]

\* the big-endian two's-complement representation of v in n bytes
ToBeBytes(v, n) == [i \in 1..n |-> (v \div (256 ^ (n - i))) % 256]

\* the big-endian representation of a 64-bit value held as four limbs
LimbsToBeBytes(d) ==
    ToBeBytes(d[1], 2) \o ToBeBytes(d[2], 2) \o ToBeBytes(d[3], 2)
        \o ToBeBytes(d[4], 2)

\* the last call was read_utf and found its two prefix bytes
HasPrefix == res.op = "read_utf" /\ Left >= 2

\* the length prefix L of the last read_utf
PrefixL == data[prev + 1] * 256 + data[prev + 2]

\* the last call was read_utf and the source held its whole payload
HasPayload == HasPrefix /\ Left - 2 >= PrefixL

\* the L payload bytes of the last read_utf
Payload == [i \in 1..PrefixL |-> data[prev + 2 + i]]

IsCont(b) == b \in 128..191
IsBadLead(b) == b \in 128..191 \/ b \in 240..255
IsLead2Byte(b) == b \in 192..223
IsLead3Byte(b) == b \in 224..239

\* the payload's first k bytes scan without error and end on a sequence
\* boundary: the scan expects a lead byte at k + 1
LeadExpectedAfter(k) == Scan(SubSeq(Payload, 1, k)).err = NoError

\* number of bytes of the sequence a lead byte opens
SeqWidth(b) ==
    IF b <= 127 THEN 1 ELSE IF IsLead2Byte(b) THEN 2
    ELSE IF IsLead3Byte(b) THEN 3 ELSE 0

RECURSIVE LeadOffsets(_, _)
\* the offsets of the lead bytes of a well-formed payload p, from offset i
LeadOffsets(p, i) ==
    IF i > Len(p) \/ SeqWidth(p[i]) = 0 THEN <<>>
    ELSE <<i>> \o LeadOffsets(p, i + SeqWidth(p[i]))

\* the code unit of the sequence that starts at offset i of p
ExpectedUnit(p, i) ==
    IF p[i] <= 127 THEN p[i]
    ELSE IF IsLead2Byte(p[i]) THEN (p[i] - 192) * 64 + (p[i + 1] - 128)
    ELSE (p[i] - 224) * 4096 + (p[i + 1] - 128) * 64 + (p[i + 2] - 128)

IsHigh(u) == u \in 55296..56319       \* 0xD800..0xDBFF
IsLow(u) == u \in 56320..57343        \* 0xDC00..0xDFFF

\* u holds a surrogate that is not half of a pair
HasUnpaired(u) ==
    \E i \in 1..Len(u) :
        \/ IsHigh(u[i]) /\ ~(i < Len(u) /\ IsLow(u[i + 1]))
        \/ IsLow(u[i]) /\ ~(i > 1 /\ IsHigh(u[i - 1]))

RECURSIVE Characters(_, _)
\* the characters of a UTF-16 sequence with no unpaired surrogate, from i
Characters(u, i) ==
    IF i > Len(u) THEN <<>>
    ELSE IF IsHigh(u[i]) /\ i < Len(u)
    THEN <<65536 + (u[i] - 55296) * 1024 + (u[i + 1] - 56320)>>
            \o Characters(u, i + 2)
    ELSE <<u[i]>> \o Characters(u, i + 1)

\* the call failed with the given kind and produced no value
FailedWith(kind) == ~res.ok /\ res.err = kind /\ res.value = <<>>

\* the payload ends inside a multi-byte sequence that starts at offset k
TruncatedAt(k) ==
    /\ k \in 1..PrefixL
    /\ LeadExpectedAfter(k - 1)
    /\ \/ IsLead2Byte(Payload[k]) /\ k = PrefixL
       \/ IsLead3Byte(Payload[k]) /\ k = PrefixL
       \/ IsLead3Byte(Payload[k]) /\ k + 1 = PrefixL /\ IsCont(Payload[k + 1])

\* p with every 0x00 byte replaced by the overlong sequence 0xC0 0x80
RECURSIVE Overlong(_)
Overlong(p) ==
    IF p = <<>> THEN <<>>
    ELSE (IF p[1] = 0 THEN <<192, 128>> ELSE <<p[1]>>) \o Overlong(Tail(p))

(***************************************************************************)
(* The properties.                                                         *)
(***************************************************************************)

\* C1: whenever read_utf scans its payload without error, the code units it
\* built are, in order, one per lead byte: the low 7 bits of a 0xxxxxxx
\* byte, (low 5 bits << 6) | low 6 bits for a two-byte sequence, and
\* (low 4 bits << 12) | (low 6 bits << 6) | low 6 bits for a three-byte
\* sequence; the payload of the unit test yields 0x0041 0x03BC 0x0000 0x121F.
C1_CodeUnits ==
    (HasPayload /\ res.scanned) =>
        LET offs == LeadOffsets(Payload, 1) IN
        /\ Len(res.units) = Len(offs)
        /\ \A k \in 1..Len(offs) :
               res.units[k] = ExpectedUnit(Payload, offs[k])
        /\ (Payload = <<65, 206, 188, 192, 128, 225, 136, 159>>
               => res.units = <<65, 956, 0, 4639>>)

C1_Witness ==
    /\ HasPayload /\ res.scanned
    /\ Payload = <<65, 206, 188, 192, 128, 225, 136, 159>>
    /\ res.units = <<65, 956, 0, 4639>>

\* C2: an integer read that finds its bytes succeeds with the big-endian
\* two's-complement value of those bytes: the value lies in the type's range
\* and its big-endian representation is the bytes read (so minimum, maximum,
\* 0 and -1 come back exactly); 0xC0 reads as -64, 0xC0 0x00 as -16384,
\* 0x7F 0xFF as 32767 and 0xC0 0 0 0 as -1073741824.
C2_BigEndian ==
    (res.op \in IntegerOps /\ Left >= Mandated(res.op)) =>
        LET n == Mandated(res.op)
            v == res.value
        IN  /\ res.ok
            /\ CASE res.op = "read_byte" ->
                        /\ Len(v) = 1 /\ v[1] \in -128..127
                        /\ ToBeBytes(v[1], 1) = Next_n(1)
                        /\ (Next_n(1) = <<192>> => v[1] = -64)
                 [] res.op = "read_short" ->
                        /\ Len(v) = 1 /\ v[1] \in -32768..32767
                        /\ ToBeBytes(v[1], 2) = Next_n(2)
                        /\ (Next_n(2) = <<192, 0>> => v[1] = -16384)
                 [] res.op = "read_unsigned_short" ->
                        /\ Len(v) = 1 /\ v[1] \in 0..65535
                        /\ ToBeBytes(v[1], 2) = Next_n(2)
                        /\ (Next_n(2) = <<127, 255>> => v[1] = 32767)
                 [] res.op = "read_int" ->
                        /\ Len(v) = 1
                        /\ ToBeBytes(v[1], 4) = Next_n(4)
                        /\ (Next_n(4) = <<192, 0, 0, 0>> => v[1] = -1073741824)
                        /\ (Next_n(4) = <<128, 0, 0, 0>> => v[1] = -2147483647 - 1)
                        /\ (Next_n(4) = <<127, 255, 255, 255>> => v[1] = 2147483647)
                 [] res.op = "read_long" ->
                        /\ Len(v) = 4 /\ v[1] \in -32768..32767
                        /\ \A k \in 2..4 : v[k] \in 0..65535
                        /\ LimbsToBeBytes(v) = Next_n(8)
                        /\ (Next_n(8) = <<192, 0, 0, 0, 0, 0, 0, 0>>
                               => v = <<-16384, 0, 0, 0>>)

C2_Witness ==
    /\ res.op = "read_long" /\ res.ok
    /\ Next_n(8) = <<128, 0, 0, 0, 0, 0, 0, 0>>
    /\ res.value = <<-32768, 0, 0, 0>>

\* C3: a successful call advances the position by exactly its mandated
\* count: 1, 2, 2, 4, 4, 8, 8 for the fixed-width reads and 2 + L for
\* read_utf, however many code units the payload holds; so while every call
\* has succeeded the position is the start position plus the sum of the counts.
C3_ExactAdvance ==
    /\ (res.ok /\ res.op \in FixedOps) => pos = prev + Mandated(res.op)
    /\ (res.ok /\ res.op = "read_utf") => pos = prev + 2 + PrefixL
    /\ clean => pos = owed

C3_Witness ==
    /\ res.op = "read_utf" /\ res.ok /\ clean /\ prev > 0
    /\ PrefixL > 0 /\ pos = prev + 2 + PrefixL

\* C4: a call that starts with too few bytes left fails with the
\* end-of-input error and produces no value: fewer than sizeof(T) for a
\* fixed-width read; fewer than 2, or fewer than L after the prefix, for
\* read_utf.
C4_EndOfInput ==
    /\ (res.op \in FixedOps /\ Left < Mandated(res.op))
           => FailedWith(UnexpectedEof)
    /\ (res.op = "read_utf" /\ Left < 2) => FailedWith(UnexpectedEof)
    /\ (HasPrefix /\ Left - 2 < PrefixL) => FailedWith(UnexpectedEof)

C4_Witness ==
    /\ HasPrefix /\ PrefixL >= 2 /\ Left - 2 = PrefixL - 1
    /\ FailedWith(UnexpectedEof)

\* C5: when the scan of read_utf expects a lead byte and finds a 10xxxxxx or
\* a 1111xxxx byte, the call fails with InvalidData and returns no string.
C5_InvalidLead ==
    HasPayload =>
        \A k \in 1..PrefixL :
            (LeadExpectedAfter(k - 1) /\ IsBadLead(Payload[k]))
                => FailedWith(InvalidData)

C5_Witness ==
    /\ HasPayload /\ PrefixL >= 2
    /\ LeadExpectedAfter(PrefixL - 1)
    /\ Payload[PrefixL] \in 240..255
    /\ FailedWith(InvalidData)

\* C6: for each continuation byte a 110xxxxx lead (one) or a 1110xxxx lead
\* (two) requires: if the payload ends before it the call fails with the
\* end-of-input error, if it is there but is not 10xxxxxx the call fails
\* with InvalidData.
C6_Continuation ==
    HasPayload =>
        \A k \in 1..PrefixL :
            (LeadExpectedAfter(k - 1) /\ SeqWidth(Payload[k]) \in {2, 3}) =>
                LET w == SeqWidth(Payload[k])
                    L == PrefixL
                    P == Payload
                IN  /\ k = L => FailedWith(UnexpectedEof)
                    /\ (k < L /\ ~IsCont(P[k + 1])) => FailedWith(InvalidData)
                    /\ (w = 3 /\ k + 1 = L /\ IsCont(P[k + 1]))
                           => FailedWith(UnexpectedEof)
                    /\ (w = 3 /\ k + 1 < L /\ IsCont(P[k + 1])
                           /\ ~IsCont(P[k + 2])) => FailedWith(InvalidData)

C6_Witness ==
    /\ HasPayload /\ PrefixL >= 3
    /\ LeadExpectedAfter(PrefixL - 2)
    /\ IsLead3Byte(Payload[PrefixL - 1]) /\ IsCont(Payload[PrefixL])
    /\ FailedWith(UnexpectedEof)

\* C7: once the payload has been scanned without error, read_utf fails
\* (InvalidData, no string) exactly when the code units hold an unpaired
\* surrogate; otherwise it succeeds, a high surrogate and the low surrogate
\* after it forming one character and every other unit one character.
C7_Surrogates ==
    (HasPayload /\ res.scanned) =>
        /\ res.ok <=> ~HasUnpaired(res.units)
        /\ ~res.ok => FailedWith(InvalidData)
        /\ res.ok => res.value = Characters(res.units, 1)
        /\ res.ok => Len(res.value) = Len(res.units)
               - Cardinality({i \in 1..Len(res.units) : IsHigh(res.units[i])})

C7_Witness ==
    /\ HasPayload /\ res.scanned /\ res.ok
    /\ res.units = <<55296, 57343>>
    /\ res.value = <<66559>>

\* C8: no call advances the position by more than its format's byte count,
\* on success or on failure: sizeof(T) for a fixed-width read, 2 + L for
\* read_utf (2 when the prefix itself is cut short); when the payload ends
\* inside a multi-byte sequence the bytes that follow it in the source are
\* not read.
C8_NoOverread ==
    /\ res.op \in FixedOps => pos - prev <= Mandated(res.op)
    /\ res.op = "read_utf" =>
           pos - prev <= (IF Left >= 2 THEN 2 + PrefixL ELSE 2)
    /\ HasPayload =>
           \A k \in 1..PrefixL : TruncatedAt(k) => pos = prev + 2 + PrefixL

C8_Witness ==
    /\ HasPayload
    /\ \E k \in 1..PrefixL : TruncatedAt(k)
    /\ Len(data) > prev + 2 + PrefixL
    /\ IsCont(data[prev + 2 + PrefixL + 1])
    /\ pos = prev + 2 + PrefixL
    /\ FailedWith(UnexpectedEof)

\* C9: read_utf accepts both encodings of U+0000: the payload 0x00 and the
\* payload 0xC0 0x80 each decode to the one code unit 0x0000, and a payload
\* decodes to the same code units and the same text when its 0x00 bytes are
\* written as 0xC0 0x80.
C9_BothNulForms ==
    HasPayload =>
        /\ Payload \in {<<0>>, <<192, 128>>}
               => (res.ok /\ res.units = <<0>> /\ res.value = <<0>>)
        /\ res.scanned =>
               LET o == Decode(Len(Overlong(Payload)), Overlong(Payload)) IN
               /\ o.scanned /\ o.units = res.units
               /\ o.ok = res.ok /\ o.value = res.value
        /\ \A k \in 1..PrefixL :
               (LeadExpectedAfter(k - 1) /\ Payload[k] = 0)
                   => LeadExpectedAfter(k)
        /\ res.scanned =>
               LET offs == LeadOffsets(Payload, 1) IN
               \A j \in 1..Len(offs) :
                   (\/ Payload[offs[j]] = 0
                    \/ Payload[offs[j]] = 192 /\ Payload[offs[j] + 1] = 128)
                       => res.units[j] = 0

C9_Witness ==
    /\ HasPayload /\ res.ok
    /\ Payload = <<0, 192, 128>>
    /\ res.value = <<0, 0>>

\* C10: with the whole payload available the position has advanced by
\* 2 + L whatever the outcome, and the error is that of the first defect of
\* the left-to-right scan, surrogates being validated only after it: an
\* invalid lead or bad continuation byte before a truncated last sequence
\* gives InvalidData, an unpaired surrogate before a truncated last
\* sequence gives the end-of-input error.
C10_FirstDefect ==
    HasPayload =>
        /\ pos = prev + 2 + PrefixL
        /\ (\E k \in 1..PrefixL :
               /\ LeadExpectedAfter(k - 1)
               /\ \/ IsBadLead(Payload[k])
                  \/ /\ SeqWidth(Payload[k]) \in {2, 3}
                     /\ k < PrefixL /\ ~IsCont(Payload[k + 1])
                  \/ /\ SeqWidth(Payload[k]) = 3 /\ k + 1 < PrefixL
                     /\ IsCont(Payload[k + 1]) /\ ~IsCont(Payload[k + 2]))
               => FailedWith(InvalidData)
        /\ (\E k \in 1..PrefixL : TruncatedAt(k)) => FailedWith(UnexpectedEof)

C10_Witness ==
    /\ HasPayload
    /\ \E k \in 2..PrefixL :
           /\ TruncatedAt(k)
           /\ HasUnpaired(Scan(SubSeq(Payload, 1, k - 1)).units)
    /\ FailedWith(UnexpectedEof)
    /\ pos = prev + 2 + PrefixL

====
